---- MODULE Spec2Model ----
(***************************************************************************)
(* udown web front end (src/udown/web.py): the job registry, the per-job   *)
(* bounded queue, the download worker thread with its progress hook and    *)
(* logger callbacks, and the /stream/<job_id> server-sent-event generator. *)
(*                                                                         *)
(* Python strings are modelled as sequences of tokens (each token a short  *)
(* piece of text); "\n" is the line-break token.  A substring test is a    *)
(* test for a contiguous run of tokens.                                    *)
(***************************************************************************)
EXTENDS Naturals, Sequences, FiniteSets

(* ------------------------------ bounds --------------------------------- *)

\* Queue(maxsize=10_000) of JobManager.create, scaled down.
MaxSize == 3

\* Most callbacks (progress hook calls, logger calls) one fetch makes.
MaxCallbacks == 2

\* calls made to a JobManager shared by several threads
MaxOps == 4

\* calls of the progress hook in one fetch, when only the hook is called
MaxHookCalls == 3

\* PLAYLIST_URLS arguments given to the download command
MaxUrls == 3

\* entries of one Version_X directory
MaxFilesPerDir == 2

(* ------------------------------ strings -------------------------------- *)

RECURSIVE Contains(_, _)
\* needle in hay (str.__contains__): a contiguous run of tokens
Contains(hay, needle) ==
    IF Len(hay) < Len(needle) THEN FALSE
    ELSE IF SubSeq(hay, 1, Len(needle)) = needle THEN TRUE
    ELSE Contains(Tail(hay), needle)

RECURSIVE FirstBreak(_, _)
\* index of the first line break of s at or after i, 0 when there is none
FirstBreak(s, i) ==
    IF i > Len(s) THEN 0
    ELSE IF s[i] = "\n" THEN i
    ELSE FirstBreak(s, i + 1)

RECURSIVE splitlines(_)
\* str.splitlines(): the lines of s, a final line break opening no new line
splitlines(s) ==
    IF s = <<>> THEN <<>>
    ELSE LET i == FirstBreak(s, 1)
         IN IF i = 0 THEN <<s>>
            ELSE <<SubSeq(s, 1, i - 1)>> \o splitlines(SubSeq(s, i + 1, Len(s)))

RECURSIVE JoinData(_)
\* "\n".join(f"data: {line}" for line in lines), lines not empty
JoinData(lines) ==
    IF Len(lines) = 1 THEN <<"data: ">> \o lines[1]
    ELSE <<"data: ">> \o lines[1] \o <<"\n">> \o JoinData(Tail(lines))

\* _sse(event, data): one server-sent-event frame
_sse(event, data) ==
    LET lines == IF splitlines(data) = <<>> THEN << <<>> >> ELSE splitlines(data)
    IN <<"event: ", event, "\n">> \o JoinData(lines) \o <<"\n", "\n">>

\* the text event_stream looks for in a frame
FinishedMark == <<"event: ", "finished">>

\* the event name a frame carries in its first line
EventOf(message) == message[2]

(* ---------------------------- progress hook ---------------------------- *)

Digit == <<"0", "1", "2", "3", "4", "5", "6", "7", "8", "9">>

RECURSIVE Decimal(_)
\* the decimal digits of a natural number
Decimal(n) ==
    IF n < 10 THEN <<Digit[n + 1]>>
    ELSE Decimal(n \div 10) \o <<Digit[(n % 10) + 1]>>

\* (downloaded_bytes / total_bytes) * 100 in tenths of a percent, rounded to
\* the nearest tenth; 0 when the total is falsy
ProgressTenths(downloaded_bytes, total_bytes) ==
    IF total_bytes = 0 THEN 0
    ELSE (2000 * downloaded_bytes + total_bytes) \div (2 * total_bytes)

\* a variant: the percentage formatted without its decimal
FmtInt(tenths) == Decimal(tenths \div 10)

\* f"{progress:.1f}"
Fmt1(tenths) == Decimal(tenths \div 10) \o <<".", Digit[(tenths % 10) + 1]>>

\* json.dumps(progress_data); a missing video id is rendered null
ProgressJson(video_id, tenths) ==
    <<"{'video_id': ", IF video_id = "" THEN "null" ELSE video_id,
      ", 'progress': '">> \o Fmt1(tenths) \o <<"', 'speed': 'N/A', 'eta': 'N/A'}">>

\* d.get("total_bytes") or d.get("total_bytes_estimate") or 0
TotalBytes(d) ==
    IF d.total_bytes # 0 THEN d.total_bytes ELSE d.total_bytes_estimate

\* whether WebProgressHook.__call__ sees a new active video
NewVideo(cur, d) == d.id # "" /\ cur # d.id

\* WebProgressHook.__call__: the frames it hands to _queue_put, in order.
\* d.title is <<>> when info_dict has no title, <<text>> when it has one.
HookEnvelopes(cur, d) ==
    IF d.status = "downloading"
    THEN (IF NewVideo(cur, d)
          THEN <<_sse("new_video", IF d.title = <<>> THEN <<d.id>> ELSE d.title[1])>>
          ELSE <<>>)
         \o <<_sse("progress",
                   ProgressJson(d.id, ProgressTenths(d.downloaded_bytes, TotalBytes(d))))>>
    ELSE IF d.status = "finished"
    THEN <<_sse("message", <<"Download finished: ">> \o d.filename)>>
    ELSE <<>>

\* a variant: the hook never stores the identifier it saw
HookVideoIdForgets(cur, d) == cur

\* WebProgressHook._current_video_id after the call
HookVideoId(cur, d) ==
    IF d.status = "downloading" /\ NewVideo(cur, d) THEN d.id ELSE cur

\* the warning_fn / error_fn lambdas start_download gives YtdlpLogger
LoggerEnvelopes(level, msg) ==
    IF level = "warning" THEN <<_sse("message", <<"WARN: ">> \o msg)>>
    ELSE IF level = "error" THEN <<_sse("message", <<"ERROR: ">> \o msg)>>
    ELSE <<>>

(* ------------------------------- worker -------------------------------- *)

StartingEnvelope == _sse("message", <<"Starting download...">>)

SuccessEnvelope(title) ==
    _sse("message", <<"Successfully downloaded playlist: '">> \o title \o <<"'">>)

ErrorEnvelope(text) == _sse("job_error", text)

FinishedEnvelope == _sse("finished", <<"close">>)

\* a variant of the try branch that falls into the except branch after the
\* summary
OnReturnThenError(title) == <<SuccessEnvelope(title), ErrorEnvelope(<<"E">>)>>

\* _download_task, try branch after download_playlist returned
OnReturn(title) == <<SuccessEnvelope(title)>>

\* a variant of the except branch that reports a fixed text
OnRaiseNoText(text) == <<ErrorEnvelope(<<"Download failed.">>)>>

\* a variant of the except branch that also closes the stream itself
OnRaiseAndFinish(text) == <<ErrorEnvelope(text), FinishedEnvelope>>

\* _download_task, except branch
OnRaise(text) == <<ErrorEnvelope(text)>>

\* _download_task, finally branch
OnFinally == <<FinishedEnvelope>>

(* ------------------------------- inputs -------------------------------- *)

JobIds == {"j1"}

\* the identifiers a stream request can carry: one that create never issued
\* beside those it can issue
StreamIds == JobIds \cup {"j0"}

Observers == {"s1", "s2"}

\* the form field playlist_url of POST /download
Urls == {<<>>, <<" ">>, <<"\t", "\n">>, <<" ", "u", " ">>}

\* what download_playlist can raise (str(e)), one of them over two lines
Faults == {<<"Fatal error fetching playlist info: ", "E">>,
           <<"Could not retrieve playlist information for u.", "\n", "Check the URL or cookies.">>}

\* playlist_info['title'] of a fetch that returns
PlaylistTitles == {<<"P">>, <<"Live ", "event: ", "finished">>}

HookCall(status, id, title, downloaded, total, estimate, filename) ==
    [fn |-> "hook", level |-> "", msg |-> <<>>,
     d |-> [status |-> status, id |-> id, title |-> title,
            downloaded_bytes |-> downloaded, total_bytes |-> total,
            total_bytes_estimate |-> estimate, filename |-> filename]]

LoggerCall(level, msg) ==
    [fn |-> "logger", level |-> level, msg |-> msg,
     d |-> [status |-> "", id |-> "", title |-> <<>>,
            downloaded_bytes |-> 0, total_bytes |-> 0,
            total_bytes_estimate |-> 0, filename |-> <<>>]]

\* the callbacks the fetch engine makes while download_playlist runs
Callbacks ==
    {HookCall("downloading", "v1", << <<"T1">> >>, 50, 100, 0, <<>>),
     HookCall("downloading", "v2", <<>>, 100, 0, 100, <<>>),
     HookCall("finished", "v1", << <<"T1">> >>, 100, 100, 0, <<"out.mp4">>),
     LoggerCall("warning", <<"Skipping an empty entry in the playlist.">>)}

\* the calls the fetch engine can make to the progress hook: in progress
\* with a known total, with a total that is an estimate (one that grows, one
\* that falls short of what was received), with an unknown one, with nothing
\* received yet, without an identifier; finished, for a video seen before or
\* not
HookMenu ==
    {HookCall("downloading", "v1", << <<"v1 title">> >>, 50, 100, 0, <<>>),
     HookCall("downloading", "v1", << <<"v1 title">> >>, 80, 0, 200, <<>>),
     HookCall("downloading", "v1", << <<"v1 title">> >>, 120, 0, 100, <<>>),
     HookCall("downloading", "v1", << <<"v1 title">> >>, 100, 100, 0, <<>>),
     HookCall("downloading", "v1", << <<"v1 title">> >>, 0, 100, 0, <<>>),
     HookCall("downloading", "v2", <<>>, 100, 0, 0, <<>>),
     HookCall("downloading", "", <<>>, 50, 100, 0, <<>>),
     HookCall("finished", "v1", <<>>, 0, 0, 0, <<"out.mp4">>),
     HookCall("finished", "v2", <<>>, 0, 0, 0, <<"two.mp4">>)}

\* playlist_info['title'] of the fetch whose hook calls are followed
HookTitles == {<<"T">>}

(* -------------------------------- state -------------------------------- *)

VARIABLES
    jobs,              \* JobManager._jobs: the identifiers in the registry
    job_id,            \* the identifier start_download created, "none" before
    reply,             \* the last answer of POST /download: "none", "400", "ok"
    playlist_url,      \* the form field playlist_url of the last POST /download
    queue,             \* Job.queue of the job: the frames buffered
    wpc,               \* where the worker thread is in _download_task
    todo,              \* frames the running step still hands to _queue_put
    blocked,           \* the worker waits inside q.put on a full queue
    current_video_id,  \* WebProgressHook._current_video_id, "" for None
    ncb,               \* callbacks made by the fetch so far
    calls,             \* history: the callbacks made by the fetch, in order
    fetch,             \* how download_playlist ended: none, returned, raised
    emitted,           \* history: every frame handed to _queue_put, in order
    enqueued,          \* history: every frame the queue accepted, in order
    spc,               \* per observer: none, 404, open, broke, closed
    asked,             \* per observer: the job_id of its last GET /stream/<job_id>
    out,               \* per observer: the event frames event_stream yielded
    attached           \* history, per observer: how far the worker was when
                       \* the stream was opened

\* a JobManager of its own, called from several threads at once
VARIABLES
    _jobs,             \* JobManager._jobs: identifier -> Job object
    _lock,             \* JobManager._lock: "free" or the thread holding it
    th,                \* per thread: where it is in create, get or pop
    issued,            \* the identifiers uuid4 has returned
    made,              \* the Job objects constructed so far (a Job is
                       \* modelled by its number, None by 0)
    nops,              \* calls started so far
    retlog             \* history: the calls in the order they left the lock

\* one run of the command-line download command
VARIABLES
    playlist_urls,     \* the PLAYLIST_URLS arguments
    world,             \* per URL: how download_playlist goes for it
    urls,              \* the stripped, de-duplicated list the loop walks
    cli_pc,            \* where the command is: start, loop, try, except,
                       \* finally, exit
    cli_i,             \* the loop's index i (from 1)
    exc,               \* the exception in flight, type "" when none
    echoed,            \* history, per iteration: the lines written
    hooks,             \* per iteration: its CliProgressHook, open or closed
    exit_code          \* the command's exit code once cli_pc = "exit"

\* one call of version_formatter.format_versions
VARIABLES
    tree,              \* source_root: per version, whether Version_X is
                       \* there and the entries it holds
    target_dir,        \* target_root: whether it is there, and its entries
    start_version,     \* the arguments
    end_version,
    allowed_suffixes,
    fv_pc,             \* where the call is: call, copy, returned, raised
    all_files,         \* the files the copy loop walks, in order
    counter,           \* the copy loop's counter
    fv_result          \* the value returned

webVars == <<jobs, job_id, reply, playlist_url, queue, wpc, todo, blocked, current_video_id, ncb,
             calls, fetch, emitted, enqueued, spc, asked, out, attached>>

regVars == <<_jobs, _lock, th, issued, made, nops, retlog>>

cliVars == <<playlist_urls, world, urls, cli_pc, cli_i, exc, echoed, hooks, exit_code>>

fmtVars == <<tree, target_dir, start_version, end_version, allowed_suffixes, fv_pc,
             all_files, counter, fv_result>>

\* what the web application's steps leave alone
aside == <<regVars, cliVars, fmtVars>>

\* what the steps of the JobManager's callers leave alone
notReg == <<webVars, cliVars, fmtVars>>

\* what the command's steps leave alone
notCli == <<webVars, regVars, fmtVars>>

\* what format_versions leaves alone
notFmt == <<webVars, regVars, cliVars>>

vars == <<webVars, regVars, cliVars, fmtVars>>

workerVars == <<wpc, todo, blocked, current_video_id, ncb, calls, fetch, emitted>>

WebInit ==
    /\ jobs = {}
    /\ job_id = "none"
    /\ reply = "none"
    /\ playlist_url = <<>>
    /\ queue = <<>>
    /\ wpc = "idle"
    /\ todo = <<>>
    /\ blocked = FALSE
    /\ current_video_id = ""
    /\ ncb = 0
    /\ calls = <<>>
    /\ fetch = [result |-> "none", text |-> <<>>]
    /\ emitted = <<>>
    /\ enqueued = <<>>
    /\ spc = [s \in Observers |-> "none"]
    /\ asked = [s \in Observers |-> "none"]
    /\ out = [s \in Observers |-> <<>>]
    /\ attached = [s \in Observers |-> "no"]

\* a new JobManager and no thread inside it
RegInit ==
    /\ _jobs = [i \in {} |-> 0]
    /\ _lock = "free"
    /\ th = [t \in {"t1", "t2"} |->
               [pc |-> "idle", op |-> "", id |-> "", seen |-> [i \in {} |-> 0],
                raised |-> FALSE, job |-> 0]]
    /\ issued = {}
    /\ made = 0
    /\ nops = 0
    /\ retlog = <<>>

\* the command not started; its arguments and the outcome of each URL's
\* fetch are fixed by the specification that runs it
CliIdle ==
    /\ urls = <<>>
    /\ cli_pc = "start"
    /\ cli_i = 0
    /\ exc = [type |-> "", text |-> <<>>]
    /\ echoed = <<>>
    /\ hooks = <<>>
    /\ exit_code = 0

\* no command is run
CliInit ==
    /\ playlist_urls = <<>>
    /\ world = <<>>
    /\ cli_pc = "off"
    /\ urls = <<>>
    /\ cli_i = 0
    /\ exc = [type |-> "", text |-> <<>>]
    /\ echoed = <<>>
    /\ hooks = <<>>
    /\ exit_code = 0

\* format_versions not yet in its loops
FmtIdle ==
    /\ all_files = <<>>
    /\ counter = 1
    /\ fv_result = 0

\* format_versions is not called
FmtInit ==
    /\ tree = <<>>
    /\ target_dir = [exists |-> FALSE, entries |-> {}]
    /\ start_version = 1
    /\ end_version = 7
    /\ allowed_suffixes = << <<".", "m", "p", "3">> >>
    /\ fv_pc = "off"
    /\ FmtIdle

Init == WebInit /\ RegInit /\ CliInit /\ FmtInit

(* ------------------------------ registry ------------------------------- *)

\* JobManager.create: the table with the new identifier stored
JobsCreate(js, id) == js \cup {id}

\* JobManager.get: whether a record is found
JobsGet(js, id) == id \in js

\* JobManager.pop: the table without the identifier
JobsPop(js, id) == js \ {id}

(* ---------------------------- POST /download --------------------------- *)

\* the characters str.strip() removes, among those of the model
Whitespace == {" ", "\t", "\n"}

RECURSIVE LStrip(_)
LStrip(s) == IF s # <<>> /\ Head(s) \in Whitespace THEN LStrip(Tail(s)) ELSE s

RECURSIVE RStrip(_)
RStrip(s) ==
    IF s # <<>> /\ s[Len(s)] \in Whitespace
    THEN RStrip(SubSeq(s, 1, Len(s) - 1))
    ELSE s

\* a variant: the form field is used as received
NoStrip(s) == s

\* str.strip()
strip(s) == RStrip(LStrip(s))

\* start_download: rejects an empty locator, else registers a job and starts
\* its worker thread
StartDownload(url, id) ==
    /\ job_id = "none"
    /\ playlist_url' = url
    /\ IF strip(url) = <<>>
       THEN /\ reply' = "400"
            /\ UNCHANGED <<jobs, job_id, wpc>>
       ELSE /\ reply' = "ok"
            /\ jobs' = JobsCreate(jobs, id)
            /\ job_id' = id
            /\ wpc' = "starting"
    /\ UNCHANGED <<queue, todo, blocked, current_video_id, ncb, calls, fetch, emitted,
                   enqueued, spc, asked, out, attached, aside>>

(* ----------------------------- _queue_put ------------------------------ *)

\* a variant: a queue made without maxsize always has room
HasRoomAlways(q) == TRUE

\* whether q.put finds a free slot
HasRoom(q) == Len(q) < MaxSize

\* _queue_put called with the next frame: stored at once when a slot is
\* free, else the thread waits inside q.put(message, timeout=0.5)
QueuePut ==
    /\ todo # <<>>
    /\ ~blocked
    /\ emitted' = Append(emitted, Head(todo))
    /\ IF HasRoom(queue)
       THEN /\ queue' = Append(queue, Head(todo))
            /\ enqueued' = Append(enqueued, Head(todo))
            /\ todo' = Tail(todo)
            /\ UNCHANGED blocked
       ELSE /\ blocked' = TRUE
            /\ UNCHANGED <<queue, enqueued, todo>>
    /\ UNCHANGED <<jobs, job_id, reply, playlist_url, wpc, current_video_id, ncb, calls, fetch, spc, asked, out, attached, aside>>

\* a slot came free within the timeout: the waiting put stores its frame
PutWake ==
    /\ blocked
    /\ HasRoom(queue)
    /\ queue' = Append(queue, Head(todo))
    /\ enqueued' = Append(enqueued, Head(todo))
    /\ todo' = Tail(todo)
    /\ blocked' = FALSE
    /\ UNCHANGED <<jobs, job_id, reply, playlist_url, wpc, current_video_id, ncb, calls, fetch, emitted,
                   spc, asked, out, attached, aside>>

\* a variant: q.put(message) without a timeout never raises queue.Full
NoTimeout == FALSE

\* whether the 0.5 s wait of q.put can end in queue.Full
TimeoutEnabled == TRUE

\* the timeout passed with the queue still full: queue.Full, caught, the
\* frame is dropped
PutTimeout ==
    /\ blocked
    /\ TimeoutEnabled
    /\ ~HasRoom(queue)
    /\ todo' = Tail(todo)
    /\ blocked' = FALSE
    /\ UNCHANGED <<jobs, job_id, reply, playlist_url, queue, wpc, current_video_id, ncb, calls, fetch,
                   emitted, enqueued, spc, asked, out, attached, aside>>

(* ---------------------------- _download_task --------------------------- *)

\* the thread starts: _queue_put(q, _sse("message", "Starting download..."))
TaskStart ==
    /\ wpc = "starting"
    /\ todo' = <<StartingEnvelope>>
    /\ wpc' = "fetching"
    /\ UNCHANGED <<jobs, job_id, reply, playlist_url, queue, blocked, current_video_id, ncb, calls, fetch,
                   emitted, enqueued, spc, asked, out, attached, aside>>

\* download_playlist calls the progress hook or the logger
CallbackBody(c) ==
    /\ wpc = "fetching"
    /\ todo = <<>>
    /\ ncb' = ncb + 1
    /\ calls' = Append(calls, c)
    /\ IF c.fn = "hook"
       THEN /\ todo' = HookEnvelopes(current_video_id, c.d)
            /\ current_video_id' = HookVideoId(current_video_id, c.d)
       ELSE /\ todo' = LoggerEnvelopes(c.level, c.msg)
            /\ UNCHANGED current_video_id
    /\ UNCHANGED <<jobs, job_id, reply, playlist_url, queue, wpc, blocked, fetch, emitted,
                   enqueued, spc, asked, out, attached, aside>>

\* a callback of a fetch that makes at most MaxCallbacks of them
Callback(c) == ncb < MaxCallbacks /\ CallbackBody(c)

\* a call of the progress hook in a fetch that makes at most MaxHookCalls
HookCallback(c) == ncb < MaxHookCalls /\ CallbackBody(c)

\* download_playlist returns playlist_info
FetchReturn(title) ==
    /\ wpc = "fetching"
    /\ todo = <<>>
    /\ fetch' = [result |-> "returned", text |-> title]
    /\ todo' = OnReturn(title)
    /\ wpc' = "closing"
    /\ UNCHANGED <<jobs, job_id, reply, playlist_url, queue, blocked, current_video_id, ncb, calls,
                   emitted, enqueued, spc, asked, out, attached, aside>>

\* download_playlist raises
FetchRaise(text) ==
    /\ wpc = "fetching"
    /\ todo = <<>>
    /\ fetch' = [result |-> "raised", text |-> text]
    /\ todo' = OnRaise(text)
    /\ wpc' = "closing"
    /\ UNCHANGED <<jobs, job_id, reply, playlist_url, queue, blocked, current_video_id, ncb, calls,
                   emitted, enqueued, spc, asked, out, attached, aside>>

\* the finally branch
TaskFinally ==
    /\ wpc = "closing"
    /\ todo = <<>>
    /\ todo' = OnFinally
    /\ wpc' = "finishing"
    /\ UNCHANGED <<jobs, job_id, reply, playlist_url, queue, blocked, current_video_id, ncb, calls, fetch,
                   emitted, enqueued, spc, asked, out, attached, aside>>

\* _download_task returns and the thread ends
TaskExit ==
    /\ wpc = "finishing"
    /\ todo = <<>>
    /\ wpc' = "done"
    /\ UNCHANGED <<jobs, job_id, reply, playlist_url, queue, todo, blocked, current_video_id, ncb, calls,
                   fetch, emitted, enqueued, spc, asked, out, attached, aside>>

(* --------------------------- GET /stream/<id> -------------------------- *)

\* the frames of event ev among frames
OfEvent(frames, ev) == SelectSeq(frames, LAMBDA f : EventOf(f) = ev)

\* how far the worker is: "running" until it hands the finished frame to
\* _queue_put, "closing" once it has, "finished" once the queue holds or held
\* that frame
WorkerPhase ==
    IF OfEvent(enqueued, "finished") # <<>> THEN "finished"
    ELSE IF OfEvent(emitted, "finished") # <<>> THEN "closing"
    ELSE "running"

\* a variant: a last-in first-out queue hands out its newest frame
QueueBack(q) == q[Len(q)]

\* job.queue.get: the frame taken
QueueFront(q) == Head(q)

\* job.queue.get: what stays buffered
QueueRest(q) == Tail(q)

\* the test that ends the drain loop: "event: finished" in message
StreamStops(message) == Contains(message, FinishedMark)

\* a variant: the registry entry is removed after the loop, not in a finally
StreamFinallyOnBreak(js, id, how) == IF how = "break" THEN JobsPop(js, id) ELSE js

\* the finally branch of event_stream, reached by the break ("break") or by
\* the GeneratorExit of a failed write ("close"): jobs.pop(job_id)
StreamFinally(js, id, how) == JobsPop(js, id)

\* a variant: the record is used without the abort(404) of a failed lookup
StreamRequestNoCheck(s, id) ==
    /\ spc[s] \in {"none", "404"}
    /\ asked' = [asked EXCEPT ![s] = id]
    /\ spc' = [spc EXCEPT ![s] = "open"]
    /\ out' = [out EXCEPT ![s] = <<>>]
    /\ attached' = [attached EXCEPT ![s] = WorkerPhase]
    /\ UNCHANGED <<jobs, job_id, reply, playlist_url, queue, enqueued>>
    /\ UNCHANGED <<workerVars, aside>>

\* stream(job_id): 404 for an identifier not in the registry, else the
\* response generator is set up
StreamRequest(s, id) ==
    /\ spc[s] \in {"none", "404"}
    /\ asked' = [asked EXCEPT ![s] = id]
    /\ spc' = [spc EXCEPT ![s] = IF JobsGet(jobs, id) THEN "open" ELSE "404"]
    /\ out' = [out EXCEPT ![s] = <<>>]
    /\ attached' = [attached EXCEPT ![s] = IF JobsGet(jobs, id) THEN WorkerPhase ELSE @]
    /\ UNCHANGED <<jobs, job_id, reply, playlist_url, queue, enqueued>>
    /\ UNCHANGED <<workerVars, aside>>

\* one turn of the loop with a frame buffered: taken, yielded, and the loop
\* ends when the frame holds the finished mark
StreamGet(s) ==
    /\ spc[s] = "open"
    /\ queue # <<>>
    /\ queue' = QueueRest(queue)
    /\ out' = [out EXCEPT ![s] = Append(@, QueueFront(queue))]
    /\ IF StreamStops(QueueFront(queue))
       THEN /\ spc' = [spc EXCEPT ![s] = "broke"]
            /\ jobs' = StreamFinally(jobs, asked[s], "break")
       ELSE UNCHANGED <<spc, jobs>>
    /\ UNCHANGED <<job_id, reply, playlist_url, enqueued, asked, attached, aside>>
    /\ UNCHANGED <<workerVars, aside>>

\* one turn of the loop with nothing buffered for 15 s: a keep-alive is
\* yielded and the loop goes on (out records the event frames only)
StreamKeepAlive(s) ==
    /\ spc[s] = "open"
    /\ queue = <<>>
    /\ UNCHANGED <<jobs, job_id, reply, playlist_url, queue, enqueued, spc, asked, out, attached, aside>>
    /\ UNCHANGED <<workerVars, aside>>

\* the observer is gone: the frame the loop yields next cannot be written,
\* the server closes the generator and GeneratorExit runs the finally branch
StreamDisconnect(s) ==
    /\ spc[s] = "open"
    /\ IF queue # <<>>
       THEN /\ queue' = QueueRest(queue)
            /\ out' = [out EXCEPT ![s] = Append(@, QueueFront(queue))]
       ELSE UNCHANGED <<queue, out>>
    /\ spc' = [spc EXCEPT ![s] = "closed"]
    /\ jobs' = StreamFinally(jobs, asked[s], "close")
    /\ UNCHANGED <<job_id, reply, playlist_url, enqueued, asked, attached, aside>>
    /\ UNCHANGED <<workerVars, aside>>

(* ----------------- JobManager called from several threads -------------- *)

Threads == {"t1", "t2"}

\* the values uuid.uuid4().hex can take
RegIds == {"a", "b"}

\* Optional[Job]: None
None == 0

\* a variant: identifiers from a source that can repeat itself
Uuid4Repeats(used) == RegIds

\* uuid.uuid4().hex, by its contract: a value it has not returned before
uuid4(used) == RegIds \ used

\* a variant: the table is touched without holding the lock
LockIgnored(l) == TRUE

\* with self._lock: whether the lock can be taken
CanAcquire(l) == l = "free"

\* self._jobs[job_id] = job
DictSet(d, k, v) == [i \in DOMAIN d \cup {k} |-> IF i = k THEN v ELSE d[i]]

\* self._jobs.get(job_id)
DictGet(d, k) == IF k \in DOMAIN d THEN d[k] ELSE None

\* the table self._jobs.pop leaves
DictWithout(d, k) == [i \in DOMAIN d \ {k} |-> d[i]]

\* a variant: self._jobs.pop(job_id) raises KeyError for a missing key
DictPopNoDefault(d, k) ==
    IF k \in DOMAIN d THEN [raised |-> FALSE, job |-> d[k]]
    ELSE [raised |-> TRUE, job |-> None]

\* self._jobs.pop(job_id, None): what it returns
DictPop(d, k) == [raised |-> FALSE, job |-> DictGet(d, k)]

\* a thread calls create(), get(job_id) or pop(job_id); create draws its
\* identifier before it asks for the lock
RegCall(t, op, id) ==
    /\ th[t].pc = "idle"
    /\ nops < MaxOps
    /\ op = "create" => id \in uuid4(issued)
    /\ issued' = IF op = "create" THEN issued \cup {id} ELSE issued
    /\ nops' = nops + 1
    /\ th' = [th EXCEPT ![t] = [pc |-> "waiting", op |-> op, id |-> id,
                               seen |-> [i \in {} |-> 0],
                               raised |-> FALSE, job |-> None]]
    /\ UNCHANGED <<_jobs, _lock, made, retlog, notReg>>

\* with self._lock: the thread takes the lock and its dict operation reads
\* the table
RegEnter(t) ==
    /\ th[t].pc = "waiting"
    /\ CanAcquire(_lock)
    /\ _lock' = t
    /\ th' = [th EXCEPT ![t].pc = "inside", ![t].seen = _jobs]
    /\ UNCHANGED <<_jobs, issued, made, nops, retlog, notReg>>

\* the dict operation writes the table it computed from what it read
RegApply(t) ==
    /\ th[t].pc = "inside"
    /\ LET c == th[t] IN
       CASE c.op = "create" ->
              /\ made' = made + 1
              /\ _jobs' = DictSet(c.seen, c.id, made + 1)
              /\ th' = [th EXCEPT ![t].pc = "applied", ![t].job = made + 1]
         [] c.op = "get" ->
              /\ th' = [th EXCEPT ![t].pc = "applied", ![t].job = DictGet(c.seen, c.id)]
              /\ UNCHANGED <<_jobs, made>>
         [] c.op = "pop" ->
              /\ _jobs' = IF DictPop(c.seen, c.id).raised THEN _jobs
                          ELSE DictWithout(c.seen, c.id)
              /\ th' = [th EXCEPT ![t].pc = "applied",
                                  ![t].raised = DictPop(c.seen, c.id).raised,
                                  ![t].job = DictPop(c.seen, c.id).job]
              /\ UNCHANGED made
    /\ UNCHANGED <<_lock, issued, nops, retlog, notReg>>

\* the with block ends: the lock is released and the call returns (or
\* raises)
RegLeave(t) ==
    /\ th[t].pc = "applied"
    /\ _lock' = "free"
    /\ retlog' = Append(retlog, [t |-> t, op |-> th[t].op, id |-> th[t].id,
                                 raised |-> th[t].raised, job |-> th[t].job])
    /\ th' = [th EXCEPT ![t].pc = "idle"]
    /\ UNCHANGED <<_jobs, issued, made, nops, notReg>>

(* ------------------------ the download command ------------------------ *)

\* the strings a PLAYLIST_URLS argument can be
UrlArgs == {<<"u1">>, <<"u2">>, <<"u3">>, <<" ", "u1", " ">>, <<" ">>}

\* the URLs the loop can come to walk
CliUrls == {<<"u1">>, <<"u2">>, <<"u3">>}

\* how download_playlist goes for a URL: extract_info returns the playlist,
\* raises DownloadError or returns nothing, or the playlist is fetched and
\* the mkdir of its directory raises OSError
Outcomes == {"info", "DownloadError", "None", "OSError"}

RECURSIVE CleanUrls(_)
\* [u.strip() for u in urls if u and u.strip()]
CleanUrls(us) ==
    IF us = <<>> THEN <<>>
    ELSE (IF strip(Head(us)) = <<>> THEN <<>> ELSE <<strip(Head(us))>>)
         \o CleanUrls(Tail(us))

RECURSIVE Dedup(_, _)
\* [u for u in urls if not (u in seen or seen.add(u))]
Dedup(us, seen) ==
    IF us = <<>> THEN <<>>
    ELSE IF Head(us) \in seen THEN Dedup(Tail(us), seen)
    ELSE <<Head(us)>> \o Dedup(Tail(us), seen \cup {Head(us)})

NoExc == [type |-> "", text |-> <<>>]

\* download_playlist(url) up to the point where it has the playlist and its
\* directory: the exception it raises, NoExc when it goes on and returns
DownloadPlaylist(url, outcome) ==
    IF outcome = "DownloadError"
    THEN [type |-> "RuntimeError",
          text |-> <<"Fatal error fetching playlist info: ", "E">>]
    ELSE IF outcome = "None"
    THEN [type |-> "ValueError",
          text |-> <<"Could not retrieve playlist information for ">> \o url
                   \o <<". Check the URL or cookies.">>]
    ELSE IF outcome = "OSError"
    THEN [type |-> "OSError", text |-> <<"mkdir">>]
    ELSE NoExc

\* a variant: except ValueError only
CaughtValueErrorOnly(e) == e.type = "ValueError"

\* except (ValueError, RuntimeError)
Caught(e) == e.type \in {"ValueError", "RuntimeError"}

\* the command starts: the URL list is cleaned and de-duplicated, and the
\* command returns at once when it is empty
CliStart ==
    /\ cli_pc = "start"
    /\ urls' = Dedup(CleanUrls(playlist_urls), {})
    /\ IF urls' = <<>>
       THEN /\ echoed' = << <<[fg |-> "", text |-> <<"No playlist URLs provided.">>]>> >>
            /\ cli_pc' = "exit"
            /\ UNCHANGED cli_i
       ELSE /\ cli_pc' = "loop"
            /\ cli_i' = 1
            /\ UNCHANGED echoed
    /\ UNCHANGED <<playlist_urls, world, exc, hooks, exit_code, notCli>>

\* the loop takes its next URL: the heading is written and a progress hook
\* is made
CliBegin ==
    /\ cli_pc = "loop"
    /\ echoed' = Append(echoed,
                        <<[fg |-> "cyan",
                           text |-> <<"Processing playlist ">> \o Decimal(cli_i)
                                    \o <<"/">> \o Decimal(Len(urls)) \o <<": ">>
                                    \o urls[cli_i]]>>)
    /\ hooks' = Append(hooks, "open")
    /\ cli_pc' = "try"
    /\ UNCHANGED <<playlist_urls, world, urls, cli_i, exc, exit_code, notCli>>

\* the try block: download_playlist returns and the success line is
\* written, or it raises
CliTry ==
    /\ cli_pc = "try"
    /\ LET e == DownloadPlaylist(urls[cli_i], world[urls[cli_i]])
       IN  IF e = NoExc
           THEN /\ echoed' = [echoed EXCEPT ![cli_i] =
                                 Append(@, [fg |-> "green",
                                            text |-> <<"Successfully downloaded playlist: '",
                                                       "T", "'">>])]
                /\ cli_pc' = "finally"
                /\ UNCHANGED exc
           ELSE /\ exc' = e
                /\ cli_pc' = "except"
                /\ UNCHANGED echoed
    /\ UNCHANGED <<playlist_urls, world, urls, cli_i, hooks, exit_code, notCli>>

\* the except clause: a ValueError or RuntimeError is written in red and
\* ends there, any other exception stays in flight
CliExcept ==
    /\ cli_pc = "except"
    /\ IF Caught(exc)
       THEN /\ echoed' = [echoed EXCEPT ![cli_i] =
                             Append(@, [fg |-> "red", text |-> exc.text])]
            /\ exc' = NoExc
       ELSE UNCHANGED <<echoed, exc>>
    /\ cli_pc' = "finally"
    /\ UNCHANGED <<playlist_urls, world, urls, cli_i, hooks, exit_code, notCli>>

\* the finally clause closes the hook; then the loop goes on, the command
\* returns after the last URL, or the exception in flight ends the command
\* with exit code 1
CliFinally ==
    /\ cli_pc = "finally"
    /\ hooks' = [hooks EXCEPT ![cli_i] = "closed"]
    /\ IF exc # NoExc
       THEN /\ cli_pc' = "exit"
            /\ exit_code' = 1
            /\ UNCHANGED cli_i
       ELSE /\ cli_i' = cli_i + 1
            /\ cli_pc' = IF cli_i = Len(urls) THEN "exit" ELSE "loop"
            /\ UNCHANGED exit_code
    /\ UNCHANGED <<playlist_urls, world, urls, exc, echoed, notCli>>

(* --------------------------- format_versions --------------------------- *)

\* the characters of the model's file names, in code point order; "<seen>"
\* stands for a letter outside ASCII and comes last
CodePoints ==
    <<" ", "!", "-", ".", "0", "1", "2", "3", "4", "5", "6", "7", "8", "9",
      "B", "M", "P", "_", "a", "b", "c", "d", "h", "m", "p", "<seen>">>

Ord(c) == CHOOSE i \in 1..Len(CodePoints) : CodePoints[i] = c

\* what encode("ascii", "ignore") keeps
IsAscii(c) == c # "<seen>"

\* str.isalnum() of one character
isalnum(c) ==
    c \in {"0", "1", "2", "3", "4", "5", "6", "7", "8", "9",
           "B", "M", "P", "a", "b", "c", "d", "h", "m", "p", "<seen>"}

\* str.lower()
lower(s) ==
    [i \in 1..Len(s) |->
        CASE s[i] = "B" -> "b" [] s[i] = "M" -> "m" [] s[i] = "P" -> "p" [] OTHER -> s[i]]

RECURSIVE NameLess(_, _)
\* a < b for two strings
NameLess(a, b) ==
    IF a = <<>> THEN b # <<>>
    ELSE IF b = <<>> THEN FALSE
    ELSE IF Head(a) = Head(b) THEN NameLess(Tail(a), Tail(b))
    ELSE Ord(Head(a)) < Ord(Head(b))

RECURSIVE sorted(_)
\* sorted(files, key=lambda p: p.name)
sorted(files) ==
    IF files = {} THEN <<>>
    ELSE LET first == CHOOSE p \in files :
                          \A q \in files \ {p} : NameLess(p.name, q.name)
         IN  <<first>> \o sorted(files \ {first})

RECURSIVE RFindDot(_, _)
\* name.rfind("."), counted from 1, 0 when there is no dot at or before i
RFindDot(name, i) ==
    IF i = 0 THEN 0
    ELSE IF name[i] = "." THEN i
    ELSE RFindDot(name, i - 1)

\* PurePath.suffix: from the last dot, when that dot is neither the first nor
\* the last character
Suffix(name) ==
    LET j == RFindDot(name, Len(name))
    IN  IF 1 < j /\ j < Len(name) THEN SubSeq(name, j, Len(name)) ELSE <<>>

\* PurePath.stem
Stem(name) ==
    LET j == RFindDot(name, Len(name))
    IN  IF 1 < j /\ j < Len(name) THEN SubSeq(name, 1, j - 1) ELSE name

\* downloader.sanitize_filename
sanitize_filename(name) ==
    RStrip(SelectSeq(name, LAMBDA c : isalnum(c) \/ c \in {" ", ".", "_"}))

\* cleaned[:100]
StemLimit == 100

\* _ascii_safe (NFKD changes none of the model's characters)
_ascii_safe(text) ==
    LET ascii_text == SelectSeq(text, IsAscii)
        cleaned == IF sanitize_filename(ascii_text) = <<>>
                   THEN <<"t", "r", "a", "c", "k">>
                   ELSE sanitize_filename(ascii_text)
    IN  SubSeq(cleaned, 1, IF Len(cleaned) < StemLimit THEN Len(cleaned) ELSE StemLimit)

\* a variant: only the entries that are not files are passed over
SkippedNonFilesOnly(p) == p.kind # "file"

\* not p.is_file() or p.name.startswith(".")
Skipped(p) == p.kind # "file" \/ (p.name # <<>> /\ Head(p.name) = ".")

\* _iter_audio_files
_iter_audio_files(folder, suffixes) ==
    sorted({p \in folder :
               /\ ~Skipped(p)
               /\ suffixes = <<>>
                  \/ \E i \in 1..Len(suffixes) : lower(suffixes[i]) = lower(Suffix(p.name))})

RECURSIVE Collect(_, _, _, _)
\* all_files: the audio files of Version_v .. Version_last, the versions in
\* order, a missing directory passed over
Collect(t, v, last, suffixes) ==
    IF v > last THEN <<>>
    ELSE (IF v \in DOMAIN t /\ t[v].exists
          THEN LET fs == _iter_audio_files(t[v].entries, suffixes)
               IN  [i \in 1..Len(fs) |-> [version |-> v, name |-> fs[i].name]]
          ELSE <<>>)
         \o Collect(t, v + 1, last, suffixes)

\* the least number of digits of a number prefix
MinWidth == 3

\* width = max(3, len(str(total_files)))
Width(total) ==
    IF Len(Decimal(total)) > MinWidth THEN Len(Decimal(total)) ELSE MinWidth

\* f"{counter:0{width}d}"
ZeroPad(n, width) ==
    IF Len(Decimal(n)) >= width THEN Decimal(n)
    ELSE [i \in 1..(width - Len(Decimal(n))) |-> "0"] \o Decimal(n)

\* new_name = f"{counter:0{width}d} - {stem}{suffix}"
NewName(n, width, name) ==
    ZeroPad(n, width) \o <<" ", "-", " ">> \o _ascii_safe(Stem(name)) \o lower(Suffix(name))

\* shutil.copy2(file_path, dest) for a dest that is no directory: the
\* directory's entries with the copy written, over a file of that name if any
copy2(entries, file, dest) ==
    {e \in entries : e.name # dest} \cup {[name |-> dest, kind |-> "file", data |-> file]}

\* the call up to the copy loop: the range is checked, the target made and
\* cleared of its files, the audio files collected
FvCall ==
    /\ fv_pc = "call"
    /\ IF start_version < 1 \/ end_version < 1 \/ start_version > end_version
       THEN /\ fv_pc' = "raised"
            /\ UNCHANGED <<target_dir, all_files, fv_result>>
       ELSE /\ target_dir' = [exists |-> TRUE,
                              entries |-> {e \in target_dir.entries : e.kind # "file"}]
            /\ all_files' = Collect(tree, start_version, end_version, allowed_suffixes)
            /\ fv_pc' = IF all_files' = <<>> THEN "returned" ELSE "copy"
            /\ fv_result' = 0
    /\ UNCHANGED <<tree, start_version, end_version, allowed_suffixes, counter, notFmt>>

\* one turn of the copy loop
FvCopy ==
    /\ fv_pc = "copy"
    /\ counter <= Len(all_files)
    /\ target_dir' = [target_dir EXCEPT !.entries =
                         copy2(@, all_files[counter],
                               NewName(counter, Width(Len(all_files)),
                                       all_files[counter].name))]
    /\ counter' = counter + 1
    /\ UNCHANGED <<tree, start_version, end_version, allowed_suffixes, fv_pc, all_files,
                   fv_result, notFmt>>

\* return counter - 1
FvReturn ==
    /\ fv_pc = "copy"
    /\ counter > Len(all_files)
    /\ fv_result' = counter - 1
    /\ fv_pc' = "returned"
    /\ UNCHANGED <<tree, target_dir, start_version, end_version, allowed_suffixes,
                   all_files, counter, notFmt>>

\* the Version_X directories that can exist
Versions == {1, 2}

\* what a Version_X directory can hold: audio files in either case, a hidden
\* file, a file of another kind, a directory, a file with a name outside ASCII
EntryMenu ==
    {[name |-> <<"a", ".", "m", "p", "3">>, kind |-> "file"],
     [name |-> <<"B", ".", "M", "P", "3">>, kind |-> "file"],
     [name |-> <<".", "h", ".", "m", "p", "3">>, kind |-> "file"],
     [name |-> <<"c", ".", "m", "4", "a">>, kind |-> "file"],
     [name |-> <<"d", ".", "m", "p", "3">>, kind |-> "dir"],
     [name |-> <<"<seen>", ".", "m", "p", "3">>, kind |-> "file"]}

DirChoices ==
    {[exists |-> FALSE, entries |-> {}]}
    \cup {[exists |-> TRUE, entries |-> S] :
             S \in {T \in SUBSET EntryMenu : Cardinality(T) <= MaxFilesPerDir}}

\* what is not a copy of a source file
NoData == [version |-> 0, name |-> <<>>]

\* target_root before the call: not there, or holding a file left by an
\* earlier run and a directory
TargetChoices ==
    {[exists |-> FALSE, entries |-> {}],
     [exists |-> TRUE,
      entries |-> {[name |-> <<"0", "0", "1", " ", "-", " ", "a", ".", "m", "p", "3">>,
                    kind |-> "file", data |-> NoData],
                   [name |-> <<"k", "e", "e", "p">>, kind |-> "dir", data |-> NoData]}]}

SuffixChoices ==
    {<< <<".", "m", "p", "3">> >>,
     << <<".", "M", "P", "3">>, <<".", "m", "4", "a">> >>,
     <<>>}

(* ---------------------------- specifications --------------------------- *)

\* one call of format_versions on a bounded file system
InitFormat ==
    /\ WebInit
    /\ RegInit
    /\ CliInit
    /\ FmtIdle
    /\ tree \in [Versions -> DirChoices]
    /\ target_dir \in TargetChoices
    /\ start_version \in {0, 1, 2}
    /\ end_version \in {1, 2, 3}
    /\ allowed_suffixes \in SuffixChoices
    /\ fv_pc = "call"

NextFormat ==
    \/ FvCall
    \/ FvCopy
    \/ FvReturn

SpecFormat == InitFormat /\ [][NextFormat]_vars


\* a run of the download command on up to MaxUrls arguments, in an
\* environment that fixes how the fetch of each URL goes
InitCli ==
    /\ WebInit
    /\ RegInit
    /\ FmtInit
    /\ CliIdle
    /\ playlist_urls \in UNION {[1..n -> UrlArgs] : n \in 0..MaxUrls}
    /\ world \in [CliUrls -> Outcomes]

NextCli ==
    \/ CliStart
    \/ CliBegin
    \/ CliTry
    \/ CliExcept
    \/ CliFinally

SpecCli == InitCli /\ [][NextCli]_vars


\* one job whose stream is never opened, its fetch calling the progress hook
NextHook ==
    \/ \E url \in Urls, id \in JobIds : StartDownload(url, id)
    \/ TaskStart
    \/ QueuePut
    \/ PutTimeout
    \/ \E c \in HookMenu : HookCallback(c)
    \/ \E title \in HookTitles : FetchReturn(title)
    \/ \E text \in Faults : FetchRaise(text)
    \/ TaskFinally
    \/ TaskExit

SpecHook == Init /\ [][NextHook]_vars

\* several threads share one JobManager
NextReg ==
    \E t \in Threads :
        \/ \E op \in {"create", "get", "pop"}, id \in RegIds : RegCall(t, op, id)
        \/ RegEnter(t)
        \/ RegApply(t)
        \/ RegLeave(t)

SpecReg == Init /\ [][NextReg]_vars


\* the worker thread's steps
Worker ==
    \/ TaskStart
    \/ QueuePut
    \/ PutWake
    \/ PutTimeout
    \/ \E c \in Callbacks : Callback(c)
    \/ \E title \in PlaylistTitles : FetchReturn(title)
    \/ \E text \in Faults : FetchRaise(text)
    \/ TaskFinally
    \/ TaskExit

\* one observer's steps
Stream(s) ==
    \/ \E id \in StreamIds : StreamRequest(s, id)
    \/ StreamGet(s)
    \/ StreamKeepAlive(s)
    \/ StreamDisconnect(s)

\* one job, one observer (the supported design)
Next ==
    \/ \E url \in Urls, id \in JobIds : StartDownload(url, id)
    \/ Worker
    \/ Stream("s1")

Spec == Init /\ [][Next]_vars

\* the worker is a running thread: each of its steps is taken once it stays
\* possible, and download_playlist ends; observers owe nothing
FairSpec == Spec /\ WF_vars(Worker)

\* one job and two observers that both request its stream
NextTwo ==
    \/ \E url \in Urls, id \in JobIds : StartDownload(url, id)
    \/ Worker
    \/ Stream("s1")
    \/ Stream("s2")

SpecTwo == Init /\ [][NextTwo]_vars

(* ------------------------- reading the histories ----------------------- *)

Last(seq) == seq[Len(seq)]

IsPrefix(a, b) == Len(a) <= Len(b) /\ SubSeq(b, 1, Len(a)) = a

RECURSIVE IsSubseq(_, _)
\* a is b with some elements left out: same order, nothing added or repeated
IsSubseq(a, b) ==
    IF a = <<>> THEN TRUE
    ELSE IF b = <<>> THEN FALSE
    ELSE IF Head(a) = Head(b) THEN IsSubseq(Tail(a), Tail(b))
    ELSE IsSubseq(a, Tail(b))

RECURSIVE DataLines(_)
\* the data lines of a frame body, each without its "data: " field name
DataLines(lines) ==
    IF lines = <<>> THEN <<>>
    ELSE <<Tail(Head(lines))>> \o DataLines(Tail(lines))

RECURSIVE JoinLines(_)
JoinLines(lines) ==
    IF Len(lines) = 1 THEN lines[1]
    ELSE lines[1] \o <<"\n">> \o JoinLines(Tail(lines))

\* the data an event-stream reader rebuilds from a frame: its data lines
\* joined by line breaks
SseData(frame) ==
    JoinLines(DataLines(splitlines(SubSeq(frame, 4, Len(frame) - 2))))

\* whether a frame is the worker's success summary
IsSummary(frame) ==
    /\ EventOf(frame) = "message"
    /\ IsPrefix(<<"Successfully downloaded playlist: '">>, SseData(frame))

Events(frames) == [i \in 1..Len(frames) |-> EventOf(frames[i])]

(* -------------------------------- claims ------------------------------- *)

\* C1 (as claimed): a stream opened before the worker handed over its
\* finished frame, once its drain loop has ended by itself, has forwarded a
\* sequence that ends with a finished frame, the only one in it.
C1_StreamEndsWithFinished ==
    \A s \in Observers :
        (attached[s] = "running" /\ spc[s] = "broke")
            => /\ EventOf(Last(out[s])) = "finished"
               /\ Len(OfEvent(out[s], "finished")) = 1

\* C2: when download_playlist raised, the frames the worker handed to
\* _queue_put hold exactly one job_error frame, whose data is the fault's
\* text, hold no success summary and end with the finished frame; when no
\* callback ran they are message("Starting download..."), job_error,
\* finished, and all three are stored in the (initially empty) queue.
C2_RaiseEmitsOneJobError ==
    (wpc = "done" /\ fetch.result = "raised")
        => /\ Len(OfEvent(emitted, "job_error")) = 1
           /\ SseData(OfEvent(emitted, "job_error")[1]) = fetch.text
           /\ \A i \in 1..Len(emitted) : ~IsSummary(emitted[i])
           /\ EventOf(Last(emitted)) = "finished"
           /\ ncb = 0 =>
                /\ Events(emitted) = <<"message", "job_error", "finished">>
                /\ SseData(emitted[1]) = <<"Starting download...">>
                /\ enqueued = emitted

C2_RaisedAtOnce ==
    /\ wpc = "done"
    /\ fetch.result = "raised"
    /\ ncb = 0
    /\ Len(splitlines(fetch.text)) = 2

\* C3 (as claimed): every finished run of the worker has stored exactly one
\* finished frame in the queue, as the last frame stored.
C3_FinishedAlwaysEnqueued ==
    wpc = "done"
        => /\ Len(OfEvent(enqueued, "finished")) = 1
           /\ EventOf(Last(enqueued)) = "finished"

\* C4: once a finished frame has been handed to _queue_put no further frame
\* is handed to it, and once the queue has stored a finished frame it
\* stores no further frame.
C4_NothingAfterFinished ==
    [][/\ OfEvent(emitted, "finished") # <<>> => emitted' = emitted
       /\ OfEvent(enqueued, "finished") # <<>> => enqueued' = enqueued]_vars

C4_FinishedPushedAfterCallbacks ==
    /\ wpc = "done"
    /\ ncb = MaxCallbacks
    /\ enqueued # <<>>
    /\ EventOf(Last(enqueued)) = "finished"
    /\ Len(OfEvent(emitted, "message")) >= 3

C6_FinishedSurvivesBurst ==
    (wpc = "done" /\ Len(OfEvent(enqueued, "progress")) < Len(OfEvent(emitted, "progress")))
        => OfEvent(enqueued, "finished") # <<>>

\* C7: a started worker reaches its end, whatever the observer does.
C7_WorkerTerminates == (wpc = "starting") ~> (wpc = "done")

C7_DoneWithoutObserver ==
    /\ wpc = "done"
    /\ spc["s1"] = "none"
    /\ ~HasRoom(queue)
    /\ Len(enqueued) < Len(emitted)

\* C8 (as claimed): a stream opened after the finished frame was stored, once
\* its drain loop has ended by itself, has forwarded every frame that was
\* buffered, in order, the finished frame included, and the job is then out
\* of the registry.
C8_LateStreamGetsBacklog ==
    \A s \in Observers :
        (attached[s] = "finished" /\ spc[s] = "broke")
            => /\ out[s] = enqueued
               /\ EventOf(Last(out[s])) = "finished"
               /\ ~JobsGet(jobs, job_id)

\* C9: with one observer, the frames forwarded are the first frames the
\* queue stored, in the order stored, and the frames stored are the frames
\* the worker handed over with some left out: nothing reordered, repeated
\* or invented.
C9_ForwardedInEmissionOrder ==
    \A s \in Observers :
        (\A t \in Observers \ {s} : spc[t] \in {"none", "404"})
            => /\ IsPrefix(out[s], enqueued)
               /\ IsSubseq(enqueued, emitted)
               /\ enqueued = out[s] \o queue

C9_ForwardedAcrossDrop ==
    /\ Len(out["s1"]) >= 3
    /\ Len(enqueued) < Len(emitted)
    /\ Last(out["s1"]) # Last(emitted)

\* C10: whenever a drain loop has ended, by the finished mark or by the
\* observer going away, the job is no longer in the registry.
C10_EndedStreamRemovesJob ==
    \A s \in Observers :
        spc[s] \in {"broke", "closed"} => ~JobsGet(jobs, job_id)

C10_DisconnectedEarly ==
    /\ spc["s1"] = "closed"
    /\ wpc = "fetching"
    /\ ~JobsGet(jobs, job_id)


(* ------------------------------- C11 ----------------------------------- *)

\* C11: a stream request whose job identifier is not in the registry is
\* answered 404: no generator is set up for it, it yields no frame, it takes
\* nothing from the queue, and the registry stays as it was.
C11_UnknownIdNotFound ==
    [][\A s \in Observers :
          /\ ( /\ spc[s] \in {"none", "404"}
               /\ (asked'[s] # asked[s] \/ spc'[s] # spc[s])
               /\ asked'[s] \notin jobs )
             => /\ spc'[s] = "404"
                /\ jobs' = jobs
                /\ queue' = queue
                /\ enqueued' = enqueued
          /\ spc'[s] = "404" => out'[s] = <<>>]_vars

\* a request for an identifier never issued was refused while a job was live
\* and had frames buffered
C11_RefusedWhileJobLive ==
    /\ spc["s1"] = "404"
    /\ asked["s1"] = "j0"
    /\ jobs = {"j1"}
    /\ queue # <<>>


(* ------------------------------- C12 ----------------------------------- *)

\* a locator that is missing, empty or made of whitespace only
IsBlank(url) == \A i \in 1..Len(url) : url[i] \in {" ", "\t", "\n"}

\* C12: a POST /download whose playlist_url is missing, empty or whitespace
\* only is answered 400 and changes nothing: no registry entry, no queue, no
\* worker thread; and such a request is the only one answered 400.
C12_BlankLocatorRejected ==
    [][(reply' # reply \/ playlist_url' # playlist_url)
          => /\ IsBlank(playlist_url') <=> reply' = "400"
             /\ IsBlank(playlist_url')
                  => /\ jobs' = jobs
                     /\ job_id' = job_id
                     /\ queue' = queue
                     /\ wpc' = wpc
                     /\ wpc' = "idle"
                     /\ emitted' = emitted]_vars

\* a whitespace-only locator was rejected
C12_WhitespaceRejected ==
    /\ reply = "400"
    /\ playlist_url # <<>>
    /\ IsBlank(playlist_url)
    /\ jobs = {}


(* --------------------------- C13, C14, C15 ----------------------------- *)

\* the calls of retlog before the i-th that created, or took out, the
\* record of identifier id
CreatedBefore(i, id) ==
    {c \in 1..(i - 1) : retlog[c].op = "create" /\ retlog[c].id = id}

TakenBefore(i, id) ==
    {p \in 1..(i - 1) : /\ retlog[p].op = "pop"
                        /\ retlog[p].id = id
                        /\ retlog[p].job # 0}

\* C13: pop never raises, whatever the identifier; a pop of an identifier
\* whose record was stored and not yet taken out returns that record, every
\* other pop (a repeated one, or one of an identifier never created) returns
\* None; and the identifier of a record taken out is no longer in the table.
C13_PopIdempotent ==
    \A i \in 1..Len(retlog) :
        retlog[i].op = "pop" =>
            /\ ~retlog[i].raised
            /\ IF CreatedBefore(i, retlog[i].id) # {} /\ TakenBefore(i, retlog[i].id) = {}
               THEN /\ retlog[i].job # 0
                    /\ \A c \in CreatedBefore(i, retlog[i].id) : retlog[c].job = retlog[i].job
               ELSE retlog[i].job = 0
            /\ retlog[i].job # 0 => retlog[i].id \notin DOMAIN _jobs

\* an identifier was popped twice, with the record and then with None, and an
\* identifier never created was popped too
C13_PoppedTwice ==
    /\ \E i, j \in 1..Len(retlog) :
          /\ i < j
          /\ retlog[i].op = "pop" /\ retlog[j].op = "pop"
          /\ retlog[i].id = retlog[j].id
          /\ retlog[i].job # 0 /\ retlog[j].job = 0
    /\ \E k \in 1..Len(retlog) :
          retlog[k].op = "pop" /\ retlog[k].id \notin issued

RECURSIVE Replay(_)
\* the table the calls of log leave when made one after the other
Replay(log) ==
    IF log = <<>> THEN [i \in {} |-> 0]
    ELSE LET d == Replay(SubSeq(log, 1, Len(log) - 1))
             e == log[Len(log)]
         IN  IF e.op = "create"
             THEN [i \in DOMAIN d \cup {e.id} |-> IF i = e.id THEN e.job ELSE d[i]]
             ELSE IF e.op = "pop"
             THEN [i \in DOMAIN d \ {e.id} |-> d[i]]
             ELSE d

\* what the i-th call of retlog finds under its identifier when the calls
\* are made one after the other
SerialLookup(i) ==
    LET d == Replay(SubSeq(retlog, 1, i - 1))
    IN  IF retlog[i].id \in DOMAIN d THEN d[retlog[i].id] ELSE 0

\* C14: create, get and pop are atomic under every interleaving of two
\* threads: at most one thread is between taking and releasing the lock, the
\* table a thread read is still the table when it writes, and the calls
\* behave as if made one at a time in the order they left the lock: the table
\* is the one that order leaves (so every create is stored) and each get and
\* pop returns what that order gives it (so one record is returned by one pop
\* only).
C14_RegistryAtomic ==
    /\ Cardinality({t \in Threads : th[t].pc \in {"inside", "applied"}}) <= 1
    /\ \A t \in Threads : th[t].pc = "inside" => th[t].seen = _jobs
    /\ _lock = "free" => _jobs = Replay(retlog)
    /\ \A i \in 1..Len(retlog) :
          retlog[i].op \in {"get", "pop"} => retlog[i].job = SerialLookup(i)
    /\ \A i, j \in 1..Len(retlog) :
          (i # j /\ retlog[i].op = "pop" /\ retlog[j].op = "pop" /\ retlog[i].job # 0)
              => retlog[i].job # retlog[j].job

\* two threads pop the same stored identifier at once: one is inside the
\* lock, the other waits for it
C14_TwoPopsAtOnce ==
    /\ th["t1"].op = "pop" /\ th["t1"].pc = "inside"
    /\ th["t2"].op = "pop" /\ th["t2"].pc = "waiting"
    /\ th["t1"].id = th["t2"].id
    /\ th["t1"].id \in DOMAIN _jobs

\* the Job objects created and not returned by a pop, with the identifier
\* create returned for each
Live ==
    {c \in 1..Len(retlog) :
        /\ retlog[c].op = "create"
        /\ ~\E p \in 1..Len(retlog) : retlog[p].op = "pop" /\ retlog[p].job = retlog[c].job}

VideoIdField(frame) == SseData(frame)[2]

ProgressField(frame) == SubSeq(SseData(frame), 4, Len(SseData(frame)) - 1)

\* the hook calls of Scenario A
ScenarioA ==
    <<HookCall("downloading", "v1", << <<"v1 title">> >>, 50, 100, 0, <<>>),
      HookCall("downloading", "v1", << <<"v1 title">> >>, 100, 100, 0, <<>>),
      HookCall("finished", "v1", <<>>, 0, 0, 0, <<"out.mp4">>)>>

\* the worker went through Scenario A and ended
ScenarioADone ==
    /\ wpc = "done"
    /\ calls = ScenarioA
    /\ fetch = [result |-> "returned", text |-> <<"T">>]

\* C16 (as claimed): in Scenario A the frames handed to the queue are
\* new_video, progress, progress, message, message, finished and no other.
C16_ScenarioASixFrames ==
    ScenarioADone
        => Events(emitted) =
               <<"new_video", "progress", "progress", "message", "message", "finished">>

\* C16 (amended): in Scenario A the frames handed to the queue are
\* message("Starting download..."), new_video("v1 title"), progress 50.0,
\* progress 100.0, message("Download finished: out.mp4"),
\* message("Successfully downloaded playlist: 'T'"), finished, and no other.
C16_ScenarioASequence ==
    ScenarioADone
        => /\ Events(emitted) =
                 <<"message", "new_video", "progress", "progress", "message", "message",
                   "finished">>
           /\ SseData(emitted[1]) = <<"Starting download...">>
           /\ SseData(emitted[2]) = <<"v1 title">>
           /\ VideoIdField(emitted[3]) = "v1"
           /\ ProgressField(emitted[3]) = <<"5", "0", ".", "0">>
           /\ VideoIdField(emitted[4]) = "v1"
           /\ ProgressField(emitted[4]) = <<"1", "0", "0", ".", "0">>
           /\ SseData(emitted[5]) = <<"Download finished: ", "out.mp4">>
           /\ SseData(emitted[6]) = <<"Successfully downloaded playlist: '", "T", "'">>
           /\ SseData(emitted[7]) = <<"close">>

\* Scenario A ran to its end, with more frames than the queue holds
C16_ScenarioARan ==
    /\ ScenarioADone
    /\ Len(emitted) > Len(enqueued)


(* ----------------------------- C19, C20 -------------------------------- *)

\* the identifier carried by the last call of cs, "" before the first call
PrevId(cs) == IF cs = <<>> THEN "" ELSE cs[Len(cs)].d.id

RECURSIVE LastProgressId(_)
\* the identifier carried by the last in-progress call of cs that carried
\* one, "" when there is none
LastProgressId(cs) ==
    IF cs = <<>> THEN ""
    ELSE IF cs[Len(cs)].d.status = "downloading" /\ cs[Len(cs)].d.id # ""
         THEN cs[Len(cs)].d.id
         ELSE LastProgressId(SubSeq(cs, 1, Len(cs) - 1))

\* C19 (as claimed): a hook call hands a new_video frame to the queue
\* exactly when its identifier differs from that of the call before (the
\* first call differing from none).
C19_NewItemOnEveryChange ==
    [][calls' # calls
          => (OfEvent(todo', "new_video") # <<>>)
                 <=> (calls'[Len(calls')].d.id # PrevId(calls))]_vars

\* C19 (amended): a hook call hands a new_video frame to the queue exactly
\* when it is an in-progress call carrying an identifier that differs from
\* the one of the last earlier in-progress call that carried one; the frame
\* holds the title (the identifier when there is no title) and comes right
\* before the progress frame of the same call; consecutive in-progress calls
\* with one identifier give no new_video; a finished call gives a message
\* only.
C19_NewVideoOnNewProgressId ==
    [][calls' # calls
          => LET c == calls'[Len(calls')].d
                 fresh == /\ c.status = "downloading"
                          /\ c.id # ""
                          /\ c.id # LastProgressId(calls)
             IN  /\ (OfEvent(todo', "new_video") # <<>>) <=> fresh
                 /\ fresh => /\ Events(todo') = <<"new_video", "progress">>
                             /\ SseData(todo'[1]) =
                                    IF c.title = <<>> THEN <<c.id>> ELSE c.title[1]
                             /\ VideoIdField(todo'[2]) = c.id
                 /\ (c.status = "downloading" /\ ~fresh) => Events(todo') = <<"progress">>
                 /\ c.status = "finished" => Events(todo') = <<"message">>
                 /\ ( /\ calls # <<>>
                      /\ c.status = "downloading"
                      /\ calls[Len(calls)].d.status = "downloading"
                      /\ calls[Len(calls)].d.id = c.id )
                        => OfEvent(todo', "new_video") = <<>>]_vars

\* a video first reported by a finished call was announced by the in-progress
\* call that followed, and not again by the next one
C19_AnnouncedAfterFinished ==
    /\ Len(calls) = 3
    /\ calls[1].d.status = "finished"
    /\ calls[2].d.status = "downloading"
    /\ calls[3].d.status = "downloading"
    /\ calls[1].d.id = "v2" /\ calls[2].d.id = "v2" /\ calls[3].d.id = "v2"
    /\ wpc = "done"
    /\ Events(emitted) = <<"message", "message", "new_video", "progress", "progress",
                           "message", "finished">>

\* C20 (as claimed): the progress frame of an in-progress call whose total is
\* unknown or zero does not report the percentage 0.0.
C20_UnknownTotalMarked ==
    [][calls' # calls
          => LET c == calls'[Len(calls')].d
             IN  (c.status = "downloading" /\ c.total_bytes = 0 /\ c.total_bytes_estimate = 0)
                     => ProgressField(todo'[Len(todo')]) # <<"0", ".", "0">>]_vars


(* ------------------------------- C18 ----------------------------------- *)

\* the k-th URL's fetch of playlist information fails
FetchFails(k) == world[urls[k]] \in {"DownloadError", "None"}

\* the loop is through with its k-th URL
IterationOver(k) == k <= Len(hooks) /\ (cli_i > k \/ cli_pc = "exit")

HasAllowedSuffix(name) ==
    \/ allowed_suffixes = <<>>
    \/ \E i \in 1..Len(allowed_suffixes) :
          /\ Len(name) > Len(allowed_suffixes[i])
          /\ lower(SubSeq(name, Len(name) - Len(allowed_suffixes[i]) + 1, Len(name)))
                 = lower(allowed_suffixes[i])

\* the files to copy: the non-hidden files with an allowed suffix of the
\* Version_X directories that exist, X from start_version to end_version
Eligible ==
    UNION {{[version |-> v, name |-> e.name] :
              e \in {x \in tree[v].entries :
                        /\ x.kind = "file"
                        /\ Head(x.name) # "."
                        /\ HasAllowedSuffix(x.name)}} :
           v \in {w \in Versions : /\ start_version <= w
                                   /\ w <= end_version
                                   /\ tree[w].exists}}

\* the place of a file to copy: by version, then by name
Rank(f) ==
    1 + Cardinality({g \in Eligible :
                        \/ g.version < f.version
                        \/ g.version = f.version /\ NameLess(g.name, f.name)})

\* a number in at least three digits, followed by " - "
NumberPrefix(n) ==
    (IF n < 10 THEN <<"0", "0">> ELSE IF n < 100 THEN <<"0">> ELSE <<>>)
    \o Decimal(n) \o <<" ", "-", " ">>

\* C17: when format_versions returns, the files of the target directory are
\* exactly one copy of each non-hidden file with an allowed suffix of
\* Version_start..Version_end (missing directories passed over), the copy of
\* the file in place r (by version, then by name) bearing the number r in at
\* least three digits; no file that was in the target before is left, no
\* hidden file, directory or file of another suffix is copied, and the value
\* returned is the number of copies.
C17_FormatVersions ==
    fv_pc = "returned"
        => LET files == {t \in target_dir.entries : t.kind = "file"}
           IN  /\ fv_result = Cardinality(Eligible)
               /\ Cardinality(files) = Cardinality(Eligible)
               /\ \A t \in files : t.data \in Eligible
               /\ \A f \in Eligible :
                     \E t \in files :
                         /\ t.data = f
                         /\ IsPrefix(NumberPrefix(Rank(f)), t.name)

\* three files were copied from two directories that also held a hidden
\* file, into a target that held a file and a directory before
C17_ThreeCopied ==
    /\ fv_pc = "returned"
    /\ fv_result = 3
    /\ \E v \in Versions : \E x \in tree[v].entries : Head(x.name) = "."
    /\ \E t \in target_dir.entries : t.kind = "dir"


(* ------------------------------- C21 ----------------------------------- *)

RECURSIVE TenthsOf(_)
\* the number a reader takes from a progress field, in tenths of a percent
TenthsOf(field) ==
    IF field = <<>> THEN 0
    ELSE IF field[Len(field)] = "."
    THEN TenthsOf(SubSeq(field, 1, Len(field) - 1))
    ELSE 10 * TenthsOf(SubSeq(field, 1, Len(field) - 1))
         + (CHOOSE n \in 0..9 : Digit[n + 1] = field[Len(field)])

\* the progress frames among frames
ProgressFrames(frames) == OfEvent(frames, "progress")

\* calls a well-behaved engine makes: from one in-progress call to the next
\* for the same video the bytes received do not go down, and they do not
\* exceed a total that is known (not estimated)
Plausible(cs) ==
    /\ \A i \in 1..Len(cs) :
          (cs[i].d.status = "downloading" /\ cs[i].d.total_bytes # 0)
              => cs[i].d.downloaded_bytes <= cs[i].d.total_bytes
    /\ \A i \in 1..(Len(cs) - 1) :
          ( /\ cs[i].d.status = "downloading"
            /\ cs[i + 1].d.status = "downloading"
            /\ cs[i].d.id = cs[i + 1].d.id )
              => cs[i].d.downloaded_bytes <= cs[i + 1].d.downloaded_bytes

\* C21 (as claimed): for the calls of a well-behaved engine, the percentages
\* of the progress frames handed to the queue stay within 0..100, and from
\* one progress frame to the next with the same video identifier the
\* percentage does not go down.
C21_PercentMonotone ==
    Plausible(calls)
        => LET pf == ProgressFrames(emitted)
           IN  /\ \A i \in 1..Len(pf) : TenthsOf(ProgressField(pf[i])) <= 1000
               /\ \A i \in 1..(Len(pf) - 1) :
                     VideoIdField(pf[i]) = VideoIdField(pf[i + 1])
                         => TenthsOf(ProgressField(pf[i]))
                                <= TenthsOf(ProgressField(pf[i + 1]))


(* ------------------------------- C22 ----------------------------------- *)

\* C22 (as claimed): the step in which a stream's drain loop ends by itself,
\* and with it the step in which the loop's end removes the job, forwards a
\* finished frame; a frame of any other event, whatever its data, leaves the
\* stream open and the job in the registry.
C22_OnlyFinishedEndsStream ==
    [][\A s \in Observers :
          (spc[s] = "open" /\ spc'[s] = "broke")
              => /\ Len(out'[s]) = Len(out[s]) + 1
                 /\ EventOf(out'[s][Len(out'[s])]) = "finished"]_vars


(* ------------------------------- C23 ----------------------------------- *)

\* every frame the queue accepted is still buffered or was handed to one
\* observer only, and one observer at most was handed a finished frame
DeliveredOnce ==
    /\ Len(out["s1"]) + Len(out["s2"]) + Len(queue) = Len(enqueued)
    /\ Len(OfEvent(out["s1"], "finished")) + Len(OfEvent(out["s2"], "finished")) <= 1

\* C23 (as claimed): with two observers on one job, every frame is handed to
\* one of them at most and a finished frame to one of them at most; an
\* observer whose drain loop ended by itself was handed a finished frame, so
\* one that was not handed it stays in its loop, also once the other has
\* removed the job.
C23_TwoObservers ==
    (\A s \in Observers : attached[s] # "no")
        => /\ DeliveredOnce
           /\ \A s \in Observers :
                 spc[s] = "broke" => OfEvent(out[s], "finished") # <<>>


(* ------------------------------- C24 ----------------------------------- *)

\* C24: the queue never holds more frames than its maxsize, whatever the
\* order of the puts of the worker, the hook and the logger and of the gets
\* of the stream: a step that lengthens the queue starts below maxsize and
\* adds one frame.
C24_QueueWithinCapacity ==
    [][/\ Len(queue') <= MaxSize
       /\ Len(queue') > Len(queue)
            => /\ Len(queue) < MaxSize
               /\ Len(queue') = Len(queue) + 1]_vars

\* the queue is full again after the stream took frames from it, and a
\* frame was dropped on the way
C24_FullAfterGets ==
    /\ Len(queue) = MaxSize
    /\ spc["s1"] = "open"
    /\ out["s1"] # <<>>
    /\ ~blocked
    /\ Len(emitted) > Len(enqueued)


(* ------------------------------- C25 ----------------------------------- *)

Summaries(frames) == SelectSeq(frames, IsSummary)

\* C25: a run of the worker pushes at most one summary and at most one
\* job_error and never both; a summary is pushed only after download_playlist
\* returned and names the title it returned, and a job_error only after it
\* raised.
C25_OneTerminalOutcome ==
    /\ Len(Summaries(emitted)) + Len(OfEvent(emitted, "job_error")) <= 1
    /\ Summaries(emitted) # <<>>
         => /\ fetch.result = "returned"
            /\ Summaries(emitted)[1] = SuccessEnvelope(fetch.text)
    /\ OfEvent(emitted, "job_error") # <<>> => fetch.result = "raised"

\* a run whose fetch returned after callbacks has ended with its summary
\* pushed
C25_ReturnedAfterCallbacks ==
    /\ wpc = "done"
    /\ fetch.result = "returned"
    /\ ncb > 0
    /\ Summaries(emitted) # <<>>

====
